---- MODULE Spec2Model ----
(***************************************************************************)
(* Voice age and emotion detection: the analysis pipeline analyze_voice.   *)
(*                                                                         *)
(* The repository holds two implementations of analyze_voice(file_path):   *)
(*   "pitch"  src/test_script.py:271-311, the pitch-driven pipeline        *)
(*            (librosa.load, librosa.piptrack, mean pitch, 165 Hz gate,    *)
(*            _mock_age_predictor, _mock_emotion_predictor);               *)
(*   "mock"   src/voice_analyzer.py:7-41, the module the GUI imports,      *)
(*            whose gate, age and emotion are all drawn from np.random.    *)
(* Both are modelled, statement by statement; impl says which one runs.    *)
(*                                                                         *)
(* Abstractions of the libraries the code calls:                           *)
(*  - a decoded waveform is the sequence of its analysis frames, each      *)
(*    frame given by the pitch (Hz) piptrack detects in it, 0 for an       *)
(*    unvoiced frame; the empty sequence is the waveform of zero samples;   *)
(*  - np.random's global generator is a deterministic generator with a     *)
(*    hidden state: a draw is a function of the state and advances it.     *)
(*    The seed is unknown (any state, chosen in Init).                     *)
(*                                                                         *)
(* SpecGui models the window, src/gui_interface.py: the Tk main thread     *)
(* (select_file, analyze_voice_thread, reset, the root.after callbacks)    *)
(* and the perform_analysis threads it starts. Each handler is one step of *)
(* the main thread; a thread reads self.audio_path, then calls             *)
(* analyze_voice and queues its callback.                                  *)
(***************************************************************************)
EXTENDS Integers, Sequences, FiniteSets

VARIABLES
    impl,           \* which analyze_voice runs: "pitch" or "mock"
    file,           \* the audio file at file_path: [readable, frames]
    rng,            \* state of np.random's global generator
    call,           \* number of the current invocation, 1..MaxCalls
    pc,             \* next statement of the current invocation
    y,              \* waveform returned by librosa.load
    pitch,          \* mean pitch <<sum, count>> (a rational), line 280
    estimated_age,  \* local estimated_age
    is_senior,      \* local is_senior / result["is_senior"]
    emotion,        \* local emotion / result["emotion"]
    result,         \* the dict analyze_voice returned
    raised,         \* TRUE when an exception left analyze_voice
    trace,          \* stages invoked by the current invocation, in order
    prev,           \* what the previous invocation returned
    rng0,           \* generator state when the current invocation began
    failed,         \* the stage that raised in the current invocation, or None
    audio_path,     \* GUI: self.audio_path, None or the selected path
    analyze_btn,    \* GUI: state of the Analyze button, "normal" or "disabled"
    progress,       \* GUI: the progress bar, "hidden" or "running"
    shown,          \* GUI: what the result area renders, Empty or a result
    worker,         \* GUI: the analysis threads, by number
    after,          \* GUI: callbacks queued with root.after(0, ...), in order
    callbacks,      \* GUI: per thread, how many of its callbacks have run
    cleared         \* GUI: TRUE from a Reset / selection to the next analysis

vars == <<impl, file, rng, call, pc, y, pitch, estimated_age, is_senior,
          emotion, result, raised, trace, prev, rng0, failed,
          audio_path, analyze_btn, progress, shown, worker, after, callbacks,
          cleared>>

\* the variables of one analyze_voice invocation
avars == <<impl, file, rng, call, pc, y, pitch, estimated_age, is_senior,
           emotion, result, raised, trace, prev, rng0, failed>>

\* the variables of the window
gvars == <<audio_path, analyze_btn, progress, shown, worker, after, callbacks,
           cleared>>

\* ------------------------------------------------------------------ bounds
MaxFrames == 2
MaxCalls == 2
MaxWorkers == 2
RngMod == 128

\* ------------------------------------------------------- program constants
GenderPitchThreshold == 165
SeniorAge == 60
NormalMean == 45
NormalStd == 20
RandAgeLow == 18
RandAgeHigh == 85

Emotions == <<"Happy", "Sad", "Angry", "Neutral">>
None == "None"

\* ------------------------------------------------------------------ inputs
PitchVals == {0, GenderPitchThreshold, GenderPitchThreshold + 1}

SeqsUpTo(S, n) == UNION {[1..k -> S] : k \in 0..n}

Waveforms == SeqsUpTo(PitchVals, MaxFrames)

Files == {[readable |-> FALSE, frames |-> <<>>]}
            \cup {[readable |-> TRUE, frames |-> w] : w \in Waveforms}

\* ------------------------------------------------------------ result dicts
NoResult == [status |-> "pending"]

RejectedNoMessage == [status |-> "rejected", message |-> ""]
Rejected == [status |-> "rejected", message |-> "Upload male voice"]

Success(age, senior, emo) ==
    [status |-> "success", age |-> age, is_senior |-> senior, emotion |-> emo]

ErrorResult(msg) == [status |-> "error", message |-> msg]

\* str(e) of the exception a stage raised
StrOf(stage) == stage \o " failed"

\* --------------------------------------------------- np.random, abstracted
RngNext(s) == (5 * s + 3) % RngMod

\* np.random.choice([True, False], p=[0.7, 0.3]): True on the first 70%
ChoiceIsMale(s) == s * 10 < 7 * RngMod

\* np.random.randint(low, high): uniform on low..high-1
RandInt(s, low, high) == low + ((s * (high - low)) \div RngMod)

\* Python int(): truncation toward zero of the rational n/d, d > 0
PyInt(n, d) == IF n >= 0 THEN n \div d ELSE -((-n) \div d)

\* np.random.normal(mean, std): mean + std*z, z in [-4, 4) spread over the
\* generator states; the value is the rational NormalNum/RngMod
NormalNum(s, mean, std) == mean * RngMod + std * (8 * s - 4 * RngMod)

\* np.random.choice(emotions): uniform over the list
ChoiceEmotionOffByOne(s) ==
    (Emotions \o <<"Unknown">>)[2 + ((s * Len(Emotions)) \div RngMod)]
ChoiceEmotion(s) == Emotions[1 + ((s * Len(Emotions)) \div RngMod)]

\* --------------------------------------------------------- pure operators
RECURSIVE SumVoiced(_)
SumVoiced(p) ==
    IF p = <<>> THEN 0
    ELSE (IF Head(p) > 0 THEN Head(p) ELSE 0) + SumVoiced(Tail(p))

CountVoiced(p) == Cardinality({i \in 1..Len(p) : p[i] > 0})

\* librosa.piptrack pads a signal shorter than one window with zeros, so a
\* waveform of zero samples gives one all-zero frame
Piptrack(w) == IF w = <<>> THEN <<0>> ELSE w

\* np.mean(pitches[pitches > 0]) if np.any(pitches > 0) else 0
MeanPitch(p) ==
    IF CountVoiced(p) > 0 THEN <<SumVoiced(p), CountVoiced(p)>> ELSE <<0, 1>>

\* if pitch > 165
GateRejects(m) == m[1] > GenderPitchThreshold * m[2]

\* return {"status": "rejected", ...}: a rejection ends the invocation
AfterGateFallsThrough(rejects) == "age"
AfterGate(rejects) == IF rejects THEN "done" ELSE "age"

\* estimated_age > 60
IsSeniorAtLeast(age) == age >= SeniorAge
IsSenior(age) == age > SeniorAge

\* if is_senior: the emotion predictor runs
NeedsEmotionAlways(senior) == TRUE
NeedsEmotion(senior) == senior

\* _mock_age_predictor: int(np.random.normal(45, 20))
MockAgePredictor(s) == PyInt(NormalNum(s, NormalMean, NormalStd), RngMod)

\* int(np.random.randint(18, 85))
RandomAge(s) == RandInt(s, RandAgeLow, RandAgeHigh)

\* the try block spans every stage: try ... except Exception
InTryAfterLoad(stage) == stage # "load"
InTry(stage) == TRUE

\* except Exception as e: return {"status": "error", "message": str(e)}
HandlerKeepsPartial(stage, age) ==
    IF stage = "emotion" THEN Success(age, IsSenior(age), None)
    ELSE ErrorResult(StrOf(stage))
Handler(stage, age) == ErrorResult(StrOf(stage))

StartPc == IF impl = "pitch" THEN "load" ELSE "gender"

\* ------------------------------------------------------------ the window
Paths == {"a.wav", "b.wav"}

Workers == 1..MaxWorkers

Empty == [status |-> "empty"]

IdleWorker == [pc |-> "idle", clicked |-> None, path |-> None]

\* VoiceDetectorGUI.__init__ and setup_ui: no file, Analyze disabled, the
\* progress bar not packed, nothing in the result area
GuiConstructed ==
    /\ audio_path = None
    /\ analyze_btn = "disabled"
    /\ progress = "hidden"
    /\ shown = Empty
    /\ worker = [w \in Workers |-> IdleWorker]
    /\ after = <<>>
    /\ callbacks = [w \in Workers |-> 0]
    /\ cleared = FALSE

\* -------------------------------------------------------------------- Init
Init ==
    /\ impl \in {"pitch", "mock"}
    /\ file \in Files
    /\ rng \in 0..(RngMod - 1)
    /\ call = 1
    /\ pc = StartPc
    /\ y = <<>>
    /\ pitch = <<0, 1>>
    /\ estimated_age = 0
    /\ is_senior = FALSE
    /\ emotion = None
    /\ result = NoResult
    /\ raised = FALSE
    /\ trace = <<>>
    /\ prev = NoResult
    /\ rng0 = rng
    /\ failed = None
    /\ GuiConstructed

\* a stage raised: the handler runs if the stage is inside the try block,
\* otherwise the exception leaves analyze_voice
Raise(stage) ==
    /\ trace' = Append(trace, stage)
    /\ failed' = stage
    /\ pc' = "done"
    /\ IF InTry(stage)
       THEN result' = Handler(stage, estimated_age) /\ raised' = FALSE
       ELSE result' = NoResult /\ raised' = TRUE

\* ------------------------------------------- pitch-driven analyze_voice
\* y, sr = librosa.load(file_path, sr=None)
LibrosaLoad ==
    /\ impl = "pitch" /\ pc = "load"
    /\ file.readable
    /\ y' = file.frames
    /\ trace' = Append(trace, "load")
    /\ pc' = "piptrack"
    /\ UNCHANGED <<impl, file, rng, call, pitch, estimated_age, is_senior,
                   emotion, result, raised, prev, rng0, failed>>
    /\ UNCHANGED gvars

\* librosa.load raises on a missing or undecodable file
LibrosaLoadRaises ==
    /\ impl = "pitch" /\ pc = "load"
    /\ ~file.readable
    /\ Raise("load")
    /\ UNCHANGED <<impl, file, rng, call, y, pitch, estimated_age, is_senior,
                   emotion, prev, rng0>>
    /\ UNCHANGED gvars

\* pitches, magnitudes = librosa.piptrack(y=y, sr=sr); pitch = mean or 0
PitchExtraction ==
    /\ impl = "pitch" /\ pc = "piptrack"
    /\ pitch' = MeanPitch(Piptrack(y))
    /\ trace' = Append(trace, "piptrack")
    /\ pc' = "gender"
    /\ UNCHANGED <<impl, file, rng, call, y, estimated_age, is_senior,
                   emotion, result, raised, prev, rng0, failed>>
    /\ UNCHANGED gvars

\* on a waveform of zero samples a librosa build with reflect padding raises
PitchExtractionRaises ==
    /\ impl = "pitch" /\ pc = "piptrack"
    /\ y = <<>>
    /\ Raise("piptrack")
    /\ UNCHANGED <<impl, file, rng, call, y, pitch, estimated_age, is_senior,
                   emotion, prev, rng0>>
    /\ UNCHANGED gvars

\* if pitch > 165: return rejected
GenderCheck ==
    /\ impl = "pitch" /\ pc = "gender"
    /\ trace' = Append(trace, "gate")
    /\ result' = IF GateRejects(pitch) THEN Rejected ELSE result
    /\ pc' = AfterGate(GateRejects(pitch))
    /\ UNCHANGED <<impl, file, rng, call, y, pitch, estimated_age, is_senior,
                   emotion, raised, prev, rng0, failed>>
    /\ UNCHANGED gvars

\* estimated_age = _mock_age_predictor(y); result = {...}
AgeEstimation ==
    /\ impl = "pitch" /\ pc = "age"
    /\ estimated_age' = MockAgePredictor(rng)
    /\ rng' = RngNext(rng)
    /\ is_senior' = IsSenior(estimated_age')
    /\ emotion' = None
    /\ trace' = Append(trace, "age")
    /\ pc' = IF NeedsEmotion(is_senior') THEN "emotion" ELSE "return"
    /\ UNCHANGED <<impl, file, call, y, pitch, result, raised, prev, rng0,
                   failed>>
    /\ UNCHANGED gvars

\* result["emotion"] = _mock_emotion_predictor(y)
EmotionDetection ==
    /\ impl = "pitch" /\ pc = "emotion"
    /\ emotion' = ChoiceEmotion(rng)
    /\ rng' = RngNext(rng)
    /\ trace' = Append(trace, "emotion")
    /\ pc' = "return"
    /\ UNCHANGED <<impl, file, call, y, pitch, estimated_age, is_senior,
                   result, raised, prev, rng0, failed>>
    /\ UNCHANGED gvars

\* return result
ReturnResult ==
    /\ impl = "pitch" /\ pc = "return"
    /\ result' = Success(estimated_age, is_senior, emotion)
    /\ pc' = "done"
    /\ UNCHANGED <<impl, file, rng, call, y, pitch, estimated_age, is_senior,
                   emotion, raised, trace, prev, rng0, failed>>
    /\ UNCHANGED gvars

\* ---------------------------------------------- randomized analyze_voice
\* is_male = np.random.choice([True, False], p=[0.7, 0.3]); if not is_male
MockGender ==
    /\ impl = "mock" /\ pc = "gender"
    /\ rng' = RngNext(rng)
    /\ trace' = Append(trace, "gate")
    /\ result' = IF ~ChoiceIsMale(rng) THEN Rejected ELSE result
    /\ pc' = AfterGate(~ChoiceIsMale(rng))
    /\ UNCHANGED <<impl, file, call, y, pitch, estimated_age, is_senior,
                   emotion, raised, prev, rng0, failed>>
    /\ UNCHANGED gvars

\* estimated_age = int(np.random.randint(18, 85)); is_senior; emotion = None
MockAge ==
    /\ impl = "mock" /\ pc = "age"
    /\ estimated_age' = RandomAge(rng)
    /\ rng' = RngNext(rng)
    /\ is_senior' = IsSenior(estimated_age')
    /\ emotion' = None
    /\ trace' = Append(trace, "age")
    /\ pc' = IF NeedsEmotion(is_senior') THEN "emotion" ELSE "return"
    /\ UNCHANGED <<impl, file, call, y, pitch, result, raised, prev, rng0,
                   failed>>
    /\ UNCHANGED gvars

\* emotion = np.random.choice(emotions)
MockEmotion ==
    /\ impl = "mock" /\ pc = "emotion"
    /\ emotion' = ChoiceEmotion(rng)
    /\ rng' = RngNext(rng)
    /\ trace' = Append(trace, "emotion")
    /\ pc' = "return"
    /\ UNCHANGED <<impl, file, call, y, pitch, estimated_age, is_senior,
                   result, raised, prev, rng0, failed>>
    /\ UNCHANGED gvars

\* return {"status": "success", ...}
MockReturn ==
    /\ impl = "mock" /\ pc = "return"
    /\ result' = Success(estimated_age, is_senior, emotion)
    /\ pc' = "done"
    /\ UNCHANGED <<impl, file, rng, call, y, pitch, estimated_age, is_senior,
                   emotion, raised, trace, prev, rng0, failed>>
    /\ UNCHANGED gvars

\* ------------------------------------------------ failing predictor calls
\* the age predictor call raises (either implementation)
AgePredictorRaises ==
    /\ pc = "age"
    /\ Raise("age")
    /\ UNCHANGED <<impl, file, rng, call, y, pitch, estimated_age, is_senior,
                   emotion, prev, rng0>>
    /\ UNCHANGED gvars

\* the emotion predictor call raises (either implementation)
EmotionPredictorRaises ==
    /\ pc = "emotion"
    /\ Raise("emotion")
    /\ UNCHANGED <<impl, file, rng, call, y, pitch, estimated_age, is_senior,
                   emotion, prev, rng0>>
    /\ UNCHANGED gvars

\* ------------------------------------------------------- next invocation
\* the caller invokes analyze_voice again on the same file
CallAgain ==
    /\ pc = "done" /\ ~raised
    /\ call < MaxCalls
    /\ call' = call + 1
    /\ prev' = result
    /\ rng0' = rng
    /\ pc' = StartPc
    /\ y' = <<>>
    /\ pitch' = <<0, 1>>
    /\ estimated_age' = 0
    /\ is_senior' = FALSE
    /\ emotion' = None
    /\ result' = NoResult
    /\ trace' = <<>>
    /\ failed' = None
    /\ UNCHANGED <<impl, file, rng, raised>>
    /\ UNCHANGED gvars

Next ==
    \/ LibrosaLoad
    \/ LibrosaLoadRaises
    \/ PitchExtraction
    \/ PitchExtractionRaises
    \/ GenderCheck
    \/ AgeEstimation
    \/ EmotionDetection
    \/ ReturnResult
    \/ MockGender
    \/ MockAge
    \/ MockEmotion
    \/ MockReturn
    \/ AgePredictorRaises
    \/ EmotionPredictorRaises
    \/ CallAgain

Spec == Init /\ [][Next]_vars

\* ---------------------------------------------------- VoiceDetectorGUI
\* what analyze_voice can hand back to the worker thread
AnalyzerResults ==
    {Rejected, ErrorResult(StrOf("age"))}
        \cup {Success(SeniorAge + 1, IsSenior(SeniorAge + 1), "Neutral")}

\* threads started and not yet answered by display_results / display_error
InFlight == {w \in Workers : worker[w].pc \in {"started", "analyzing", "posted"}}

\* the thread the next click on Analyze starts
NextWorker == CHOOSE w \in Workers :
    worker[w].pc = "idle" /\ \A v \in Workers : worker[v].pc = "idle" => w <= v

\* self.root.after(0, self.display_results, result)
ResultCallback(w, res) == <<[kind |-> "results", worker |-> w, payload |-> res]>>

\* except Exception as e: self.root.after(0, self.display_error, str(e))
ErrorCallbackDropped(w, msg) == <<>>
ErrorCallback(w, msg) == <<[kind |-> "error", worker |-> w, payload |-> msg]>>

\* display_results: what the result area holds after the branch on status
Rendered(res) ==
    IF res.status \in {"rejected", "success"}
    THEN res
    ELSE Empty

\* the analyze_voice variables, at rest while the window is modelled
AnalyzerAtRest ==
    /\ impl = "mock"
    /\ file = [readable |-> TRUE, frames |-> <<>>]
    /\ rng = 0
    /\ call = 1
    /\ pc = "idle"
    /\ y = <<>>
    /\ pitch = <<0, 1>>
    /\ estimated_age = 0
    /\ is_senior = FALSE
    /\ emotion = None
    /\ result = NoResult
    /\ raised = FALSE
    /\ trace = <<>>
    /\ prev = NoResult
    /\ rng0 = 0
    /\ failed = None

InitGui == AnalyzerAtRest /\ GuiConstructed

\* select_file: the dialog returned a path (a cancelled dialog changes
\* nothing)
SelectFile ==
    \E p \in Paths :
        /\ audio_path' = p
        /\ analyze_btn' = "normal"
        /\ shown' = Empty
        /\ cleared' = TRUE
        /\ UNCHANGED <<progress, worker, after, callbacks>>
        /\ UNCHANGED avars

\* analyze_voice_thread, first guard: no file selected, a warning is shown
AnalyzeNoFile ==
    /\ analyze_btn = "normal"
    /\ audio_path = None
    /\ UNCHANGED vars

\* analyze_voice_thread, second guard: os.path.exists finds the file gone
\* (it can vanish at any time), an error is shown
AnalyzeFileMissing ==
    /\ analyze_btn = "normal"
    /\ audio_path # None
    /\ UNCHANGED vars

\* analyze_voice_thread: disable the button, show the progress bar, clear
\* the results, start the thread
AnalyzeStart ==
    /\ analyze_btn = "normal"
    /\ audio_path # None
    /\ \E w \in Workers : worker[w].pc = "idle"
    /\ analyze_btn' = "disabled"
    /\ progress' = "running"
    /\ shown' = Empty
    /\ worker' = [worker EXCEPT ![NextWorker] =
                    [pc |-> "started", clicked |-> audio_path, path |-> None]]
    /\ cleared' = FALSE
    /\ UNCHANGED <<audio_path, after, callbacks>>
    /\ UNCHANGED avars

\* perform_analysis, in the thread: self.audio_path is read for the call
WorkerReadsPath ==
    \E w \in Workers :
        /\ worker[w].pc = "started"
        /\ worker' = [worker EXCEPT ![w].pc = "analyzing",
                                    ![w].path = audio_path]
        /\ UNCHANGED <<audio_path, analyze_btn, progress, shown, after,
                       callbacks, cleared>>
        /\ UNCHANGED avars

\* perform_analysis: analyze_voice returned, display_results is queued
WorkerReturns(w) ==
    /\ worker[w].pc = "analyzing"
    /\ \E res \in AnalyzerResults :
          after' = after \o ResultCallback(w, res)
    /\ worker' = [worker EXCEPT ![w] = [IdleWorker EXCEPT !.pc = "posted"]]
    /\ UNCHANGED <<audio_path, analyze_btn, progress, shown, callbacks,
                   cleared>>
    /\ UNCHANGED avars

\* perform_analysis: the try body raised, display_error is queued
WorkerRaises(w) ==
    /\ worker[w].pc = "analyzing"
    /\ after' = after \o ErrorCallback(w, "raised")
    /\ worker' = [worker EXCEPT ![w] = [IdleWorker EXCEPT !.pc = "posted"]]
    /\ UNCHANGED <<audio_path, analyze_btn, progress, shown, callbacks,
                   cleared>>
    /\ UNCHANGED avars

WorkerReturnsAny == \E w \in Workers : WorkerReturns(w)

WorkerRaisesAny == \E w \in Workers : WorkerRaises(w)

\* the Tk loop runs the oldest queued callback
Answered(w) ==
    /\ after' = Tail(after)
    /\ worker' = [worker EXCEPT ![w].pc = Head(after).kind]
    /\ callbacks' = [callbacks EXCEPT ![w] = @ + 1]

\* display_results(result)
DisplayResults ==
    /\ after # <<>>
    /\ Head(after).kind = "results"
    /\ Answered(Head(after).worker)
    /\ progress' = "hidden"
    /\ analyze_btn' = "normal"
    /\ shown' = Rendered(Head(after).payload)
    /\ UNCHANGED <<audio_path, cleared>>
    /\ UNCHANGED avars

\* display_error(error_msg)
DisplayError ==
    /\ after # <<>>
    /\ Head(after).kind = "error"
    /\ Answered(Head(after).worker)
    /\ progress' = "hidden"
    /\ analyze_btn' = "normal"
    /\ UNCHANGED <<audio_path, shown, cleared>>
    /\ UNCHANGED avars

\* reset
Reset ==
    /\ audio_path' = None
    /\ analyze_btn' = "disabled"
    /\ shown' = Empty
    /\ progress' = "hidden"
    /\ cleared' = TRUE
    /\ UNCHANGED <<worker, after, callbacks>>
    /\ UNCHANGED avars

NextGui ==
    \/ SelectFile
    \/ AnalyzeNoFile
    \/ AnalyzeFileMissing
    \/ AnalyzeStart
    \/ WorkerReadsPath
    \/ WorkerReturnsAny
    \/ WorkerRaisesAny
    \/ DisplayResults
    \/ DisplayError
    \/ Reset

\* a started thread runs to its root.after call
WorkerStep(w) ==
    \/ worker[w].pc = "started" /\ WorkerReadsPath /\ worker'[w].pc # "started"
    \/ WorkerReturns(w)
    \/ WorkerRaises(w)

\* the thread scheduler and the Tk main loop are fair
FairGui ==
    /\ \A w \in Workers : WF_vars(WorkerStep(w))
    /\ WF_vars(DisplayResults \/ DisplayError)

SpecGui == InitGui /\ [][NextGui]_vars /\ FairGui

\* ------------------------------------------------------------------ claims
Range(q) == {q[i] : i \in 1..Len(q)}

Statuses == {"rejected", "success", "error"}

Returned == pc = "done"

\* rank of a stage in the order extract, gate, age estimation, emotion
Rank(stage) ==
    CASE stage = "load" -> 1
      [] stage = "piptrack" -> 2
      [] stage = "gate" -> 3
      [] stage = "age" -> 4
      [] stage = "emotion" -> 5

\* the mean pitch of the file's voiced frames exceeds the threshold
FileAboveThreshold ==
    /\ CountVoiced(file.frames) > 0
    /\ SumVoiced(file.frames) > 165 * CountVoiced(file.frames)

\* the file decodes to a waveform with a voiced frame: its mean pitch exists
FileVoiced == file.readable /\ CountVoiced(file.frames) > 0

\* the file decodes to a non-empty waveform none of whose frames is voiced
FileUnvoiced ==
    /\ file.readable
    /\ file.frames # <<>>
    /\ CountVoiced(file.frames) = 0

\* the file decodes to a waveform of zero samples
FileEmpty == file.readable /\ file.frames = <<>>

\* C1: analyze_voice is total: whatever the input and whichever stage fails,
\* no exception leaves it, and what it returns has status rejected, success
\* or error.
C1_Total ==
    /\ ~raised
    /\ Returned => result.status \in Statuses
    /\ (failed # None) => (Returned /\ result.status = "error")

\* C1 witness: the load stage failed and the invocation returned.
C1_Witness == Returned /\ failed = "load" /\ result.status = "error"

\* C2: in every success result the emotion is populated iff is_senior.
C2_EmotionIffSenior ==
    (Returned /\ result.status = "success")
        => ((result.emotion # None) <=> result.is_senior)

\* C2 witness: a success result of a senior, with an emotion.
C2_Witness ==
    /\ Returned /\ result.status = "success"
    /\ result.is_senior /\ result.emotion \in Range(Emotions)

\* C3: every success result has is_senior = (age > 60), strictly: age 60 is
\* not senior, age 61 is.
C3_SeniorIffOver60 ==
    (Returned /\ result.status = "success")
        => /\ result.is_senior <=> (result.age > 60)
           /\ result.age = 60 => ~result.is_senior
           /\ result.age = 61 => result.is_senior

\* C3 witness: a success result at the boundary age 60, not senior.
C3_Witness ==
    /\ Returned /\ result.status = "success"
    /\ result.age = 60 /\ ~result.is_senior

\* C4: once the gate has decided on a waveform with a mean pitch, the input
\* is rejected exactly when that mean is strictly above the threshold (165);
\* otherwise it is accepted and goes on to age estimation.
C4_GateByPitch ==
    (FileVoiced /\ "gate" \in Range(trace))
        => /\ (result.status = "rejected") <=> FileAboveThreshold
           /\ ~FileAboveThreshold => (pc = "age" \/ "age" \in Range(trace))

\* C5: two invocations on the same decodable file, neither of which had a
\* stage fail, return identical results.
C5_Deterministic ==
    (file.readable /\ Returned /\ call > 1
        /\ failed = None /\ prev.status # "error")
        => result = prev

\* C6: a waveform with no voiced frame never passes the gate into age
\* estimation and never yields a success result.
C6_UnvoicedNotAccepted ==
    FileUnvoiced
        => /\ "age" \notin Range(trace)
           /\ pc # "age"
           /\ result.status # "success"

\* C7: a waveform of zero samples always yields an error result.
C7_EmptyIsError ==
    (FileEmpty /\ Returned) => result.status = "error"

\* C8: when the age or the emotion predictor raises, the invocation returns
\* an error dict holding only status and a message: no age, is_senior or
\* emotion of a success result survives.
C8_PredictorFailureIsError ==
    (failed \in {"age", "emotion"})
        => /\ Returned
           /\ result.status = "error"
           /\ DOMAIN result = {"status", "message"}
           /\ result.message # ""

\* C8 witness: the emotion predictor raised after the age was estimated.
C8_Witness ==
    /\ Returned /\ failed = "emotion"
    /\ "age" \in Range(trace) /\ estimated_age > 60

\* C9: stages run in the order extract, gate, age, emotion; the age
\* predictor is not invoked for a rejected input; the emotion predictor is
\* invoked only after the age is known and only for an age above 60.
C9_StageOrder ==
    /\ \A i, j \in 1..Len(trace) : i < j => Rank(trace[i]) < Rank(trace[j])
    /\ (pc = "age" \/ "age" \in Range(trace))
          => ("gate" \in Range(trace) /\ result.status # "rejected")
    /\ (result.status = "rejected")
          => ("age" \notin Range(trace) /\ "emotion" \notin Range(trace))
    /\ (pc = "emotion" \/ "emotion" \in Range(trace))
          => ("age" \in Range(trace) /\ is_senior /\ estimated_age > 60)

\* C9 witness: an invocation that ran the emotion predictor and returned.
C9_Witness ==
    /\ Returned /\ result.status = "success"
    /\ "emotion" \in Range(trace)

\* C10: every age in a success result lies in [0, 110].
C10_AgeInHumanBound ==
    (Returned /\ result.status = "success") => result.age \in 0..110

\* C11: an invocation leaves the process-wide state as it found it: when
\* analyze_voice returns, np.random's global generator is in the state it
\* had when the invocation began.
C11_NoGlobalMutation == Returned => rng = rng0

C13_EmotionInClosedSet ==
    (Returned /\ result.status = "success" /\ result.emotion # None)
        => result.emotion \in {"Happy", "Sad", "Angry", "Neutral"}

\* C13 witness: a success result whose emotion is the last label of the list.
C13_Witness ==
    /\ Returned /\ result.status = "success"
    /\ result.emotion = "Neutral"

\* C14: at most one analysis thread is in flight at any time.
C14_OneWorkerInFlight == Cardinality(InFlight) <= 1

\* C15: the Analyze button is enabled only while a file is selected.
C15_EnabledOnlyWithFile == (analyze_btn = "normal") => (audio_path # None)

\* C16: the path a thread passes to analyze_voice is the path that was
\* selected when Analyze was clicked; it is never None.
C16_WorkerAnalyzesClickedFile ==
    \A w \in Workers :
        (worker[w].pc = "analyzing")
            => (worker[w].path = worker[w].clicked /\ worker[w].path # None)

\* C17: after a Reset or a file selection the result area stays empty until
\* Analyze is clicked again: no result of a thread started earlier is
\* rendered in between.
C17_NoStaleResult == cleared => shown = Empty

\* C18: every started thread is eventually answered by exactly one
\* display_results / display_error callback, never by more than one, and the
\* callback leaves the progress bar hidden and the Analyze button enabled.
C18_HandshakeCompletes ==
    /\ \A w \in Workers :
          (worker[w].pc = "started") ~> (callbacks[w] = 1)
    /\ [](\A w \in Workers : callbacks[w] <= 1)
    /\ [](\A w \in Workers :
            (worker[w].pc \in {"results", "error"}) => (callbacks[w] = 1))
    /\ [][(\E w \in Workers : callbacks'[w] # callbacks[w])
            => (progress' = "hidden" /\ analyze_btn' = "normal")]_vars

\* C18 witness: a thread whose try body raised has been answered.
C18_Witness ==
    \E w \in Workers :
        /\ worker[w].pc = "error" /\ callbacks[w] = 1
        /\ progress = "hidden" /\ analyze_btn = "normal"
        /\ ~cleared /\ after = <<>>

====
